---- MODULE Spec2Model ----
(***************************************************************************)
(* Player membership of a game (player_profile.rs): join_game commits a    *)
(* PlayerProfile entry and links it from the game's anchor with the tag    *)
(* PLAYER; get_game_players walks those links and fetches the profiles.    *)
(* Every store call (get_game_anchor, create_entry, create_link,           *)
(* get_links, get) is one atomic step of the calling agent, so calls of    *)
(* different agents interleave between store calls.                        *)
(***************************************************************************)
EXTENDS FiniteSets, Integers, Sequences, TLC

\* ------------------------------------------------------------------ inputs
\* The agents (participants) that run the zome functions.
Agents == {"a1", "a2"}
\* Game codes a caller may pass; "" is the malformed code the resolver rejects.
GameCodes == {"ABC123", "XYZ999", ""}
\* Nicknames a caller may pass.
Nicknames == {"Alice", "Bob"}
\* The arguments callers pass to join_game: two nicknames for one game, a
\* second game, and the malformed code.
JoinRequests ==
    {[game_code |-> "ABC123", player_nickname |-> "Alice"],
     [game_code |-> "ABC123", player_nickname |-> "Bob"],
     [game_code |-> "XYZ999", player_nickname |-> "Alice"],
     [game_code |-> "", player_nickname |-> "Alice"]}
\* The agents that call get_game_players. Agents differ in nothing else and
\* listings write nothing, so one listing agent meets every interleaving of a
\* listing with the joins of the other agent and with its own earlier joins.
Listers == {"a1"}
\* Author of links that were not written by join_game (another writer on the
\* shared store).
Other == "other"

\* At most this many create_entry calls are accepted by the store.
MaxJoins == 2
\* At most this many links are written by other writers.
MaxForeign == 2

PLAYER_LINK_TAG == "PLAYER"

\* ------------------------------------------------------------------ values
\* The null address of a local that is not assigned yet.
NoHash == <<>>

\* struct PlayerProfile { id, nickname } as an app entry of type player_profile.
PlayerProfile(id, nickname) ==
    [entry_type |-> "player_profile", id |-> id, nickname |-> nickname]

\* An entry of another kind that the shared store holds.
OtherEntry == [entry_type |-> "other", id |-> "", nickname |-> ""]

\* Mutant: the address leaves out the owner's key.
hash_entry_by_nickname(e) == <<e.entry_type, "", e.nickname>>

\* hash_entry: the address is a function of the entry's content only.
hash_entry(e) == <<e.entry_type, e.id, e.nickname>>

\* An address at which nothing is stored, ever.
MissingHash == <<"missing", "", "">>

\* Mutant: the identity is a fixed key, whoever executes the call.
agent_info_fixed(p) == [agent_initial_pubkey |-> "a1"]

\* agent_info(): the identity of the agent executing the call.
agent_info(p) == [agent_initial_pubkey |-> p]

\* get_game_anchor: the same code always yields the same address; a malformed
\* code fails.
get_game_anchor(code) ==
    IF code = "" THEN [ok |-> FALSE, val |-> NoHash]
    ELSE [ok |-> TRUE, val |-> <<"anchor", code>>]

Ok == [tag |-> "Ok", err |-> ""]
Err(e) == [tag |-> "Err", err |-> e]
NoResult == [tag |-> "none", err |-> ""]

NoJoinGameInfo == [game_code |-> "", player_nickname |-> ""]

VARIABLES
    dht,        \* the entries persisted in the store
    chain,      \* per agent: the Create headers it committed (entry hashes)
    links,      \* per base address: the links from it, in creation order
    joined,     \* per game code: the join_game calls that returned Ok, in order
    pc,         \* per agent: position in the running call
    game_info,  \* join_game: its argument
    game_code,  \* get_game_players: its argument
    game_anchor,                \* local of both functions
    player_profile_entry_hash,  \* join_game: local
    player_links,               \* get_game_players: local
    next_link,                  \* get_game_players: position of the for loop
    players,                    \* get_game_players: local
    result,     \* Ok / Err of the call that ended
    returned,   \* join_game: the EntryHash it returned with Ok
    calls       \* the store calls of the running call, in order

store == <<dht, chain, links>>
locals == <<game_info, game_code, game_anchor, player_profile_entry_hash,
            player_links, next_link, players, returned>>
vars == <<dht, chain, links, joined, pc, game_info, game_code, game_anchor,
          player_profile_entry_hash, player_links, next_link, players, result,
          returned, calls>>

Call(name, ok) == [call |-> name, ok |-> ok]

\* ------------------------------------------------------------------ store
\* get(address): the set holding the entry stored there, empty when none is.
Get(addr) == {e \in dht : hash_entry(e) = addr}

\* Number of Create headers over all chains.
RECURSIVE SumLen(_, _)
SumLen(f, S) ==
    IF S = {} THEN 0
    ELSE LET a == CHOOSE x \in S : TRUE IN Len(f[a]) + SumLen(f, S \ {a})

NumHeaders == SumLen(chain, Agents)

\* The addresses get_game_anchor can yield.
Anchors == {get_game_anchor(c).val : c \in {x \in GameCodes : get_game_anchor(x).ok}}

\* All links of the store.
AllLinks == UNION {{links[b][i] : i \in 1..Len(links[b])} : b \in Anchors}

NumForeign == Cardinality({l \in AllLinks : l.author = Other})

\* Mutant: the anchor keeps one link; a new one replaces it.
CreateLink_overwrite(ls, base, target, tag, author) ==
    [ls EXCEPT ![base] = <<[base |-> base, target |-> target, tag |-> tag,
                            author |-> author, id |-> 1]>>]

\* Mutant: a link equal in base, target and tag to an existing one is not added.
CreateLink_dedup(ls, base, target, tag, author) ==
    IF \E i \in 1..Len(ls[base]) :
          ls[base][i].target = target /\ ls[base][i].tag = tag
    THEN ls
    ELSE [ls EXCEPT ![base] = Append(@, [base |-> base, target |-> target,
                                         tag |-> tag, author |-> author,
                                         id |-> Len(ls[base]) + 1])]

\* create_link: one more link from base, with an identity of its own (id: its
\* position among the links of its base).
CreateLink(ls, base, target, tag, author) ==
    [ls EXCEPT ![base] = Append(@, [base |-> base, target |-> target,
                                    tag |-> tag, author |-> author,
                                    id |-> Len(ls[base]) + 1])]

\* Mutant: the tag is not used to select the links (get_links(base, None)).
get_links_any_tag(base, tag) ==
    SelectSeq(links[base], LAMBDA l : l.base = base)

\* Mutant: the enumeration misses the newest link.
get_links_drop_last(base, tag) ==
    LET all == SelectSeq(links[base], LAMBDA l : l.base = base /\ l.tag = tag)
    IN SubSeq(all, 1, Len(all) - 1)

\* Mutant: the base is not used to select the links.
get_links_any_base(base, tag) ==
    LET other == CHOOSE b \in Anchors : b # base
    IN SelectSeq(links[base] \o links[other], LAMBDA l : l.tag = tag)

\* get_links(base, Some(tag)): the links from base carrying the tag.
get_links(base, tag) ==
    SelectSeq(links[base], LAMBDA l : l.base = base /\ l.tag = tag)

\* Element::entry().to_app_option::<PlayerProfile>(): the profile, if the
\* entry is one.
IsPlayerProfile(e) == e.entry_type = "player_profile"

Init ==
    /\ dht = {OtherEntry}
    /\ chain = [p \in Agents |-> <<>>]
    /\ links = [b \in Anchors |-> <<>>]
    /\ joined = [c \in GameCodes |-> <<>>]
    /\ pc = [p \in Agents |-> "idle"]
    /\ game_info = [p \in Agents |-> NoJoinGameInfo]
    /\ game_code = [p \in Agents |-> ""]
    /\ game_anchor = [p \in Agents |-> NoHash]
    /\ player_profile_entry_hash = [p \in Agents |-> NoHash]
    /\ player_links = [p \in Agents |-> <<>>]
    /\ next_link = [p \in Agents |-> 1]
    /\ players = [p \in Agents |-> <<>>]
    /\ result = [p \in Agents |-> NoResult]
    /\ returned = [p \in Agents |-> NoHash]
    /\ calls = [p \in Agents |-> <<>>]

\* ------------------------------------------------------------------ join_game
\* A caller invokes join_game(game_info):
\* let game_anchor = get_game_anchor(game_info.game_code)?;
JoinGame_GetAnchor(p, info) ==
    /\ pc[p] = "idle"
    /\ game_info' = [game_info EXCEPT ![p] = info]
    /\ LET r == get_game_anchor(info.game_code) IN
       /\ calls' = [calls EXCEPT ![p] = Append(@, Call("get_game_anchor", r.ok))]
       /\ IF r.ok
          THEN /\ game_anchor' = [game_anchor EXCEPT ![p] = r.val]
               /\ pc' = [pc EXCEPT ![p] = "join_profile"]
               /\ UNCHANGED result
          ELSE /\ result' = [result EXCEPT ![p] = Err("InvalidGameCode")]
               /\ pc' = [pc EXCEPT ![p] = "done"]
               /\ UNCHANGED game_anchor
    /\ UNCHANGED <<store, joined, game_code,
                   player_profile_entry_hash, player_links, next_link, players,
                   returned>>

\* Mutant: a rejected create_entry does not end the call; the profile is
\* hashed and the call goes on to create_link.
create_and_hash_entry_player_profile_continue(p) ==
    /\ pc[p] = "join_profile"
    /\ LET player_profile == PlayerProfile(agent_info(p).agent_initial_pubkey,
                                           game_info[p].player_nickname)
       IN \E accepted \in (IF NumHeaders < MaxJoins THEN BOOLEAN ELSE {FALSE}) :
          /\ calls' = [calls EXCEPT ![p] = Append(@, Call("create_entry", accepted))]
          /\ IF accepted
             THEN /\ chain' = [chain EXCEPT ![p] = Append(@, hash_entry(player_profile))]
                  /\ dht' = dht \cup {player_profile}
             ELSE UNCHANGED <<chain, dht>>
          /\ player_profile_entry_hash' =
                [player_profile_entry_hash EXCEPT ![p] = hash_entry(player_profile)]
          /\ pc' = [pc EXCEPT ![p] = "join_link"]
    /\ UNCHANGED <<links, joined, game_info, game_code, game_anchor,
                   player_links, next_link, players, returned, result>>

\* Mutant: the agent's profile is updated in place: persisting one removes the
\* profiles the agent persisted before.
create_and_hash_entry_player_profile_update(p) ==
    /\ pc[p] = "join_profile"
    /\ LET player_profile == PlayerProfile(agent_info(p).agent_initial_pubkey,
                                           game_info[p].player_nickname)
       IN \E accepted \in (IF NumHeaders < MaxJoins THEN BOOLEAN ELSE {FALSE}) :
          /\ calls' = [calls EXCEPT ![p] = Append(@, Call("create_entry", accepted))]
          /\ IF accepted
             THEN /\ chain' = [chain EXCEPT ![p] = Append(@, hash_entry(player_profile))]
                  /\ dht' = {e \in dht : e.id # p} \cup {player_profile}
                  /\ player_profile_entry_hash' =
                        [player_profile_entry_hash EXCEPT ![p] = hash_entry(player_profile)]
                  /\ pc' = [pc EXCEPT ![p] = "join_link"]
                  /\ UNCHANGED result
             ELSE /\ result' = [result EXCEPT ![p] = Err("WriteFailure")]
                  /\ pc' = [pc EXCEPT ![p] = "done"]
                  /\ UNCHANGED <<chain, dht, player_profile_entry_hash>>
    /\ UNCHANGED <<links, joined, game_info, game_code, game_anchor,
                   player_links, next_link, players, returned>>

\* Mutant: the header is committed and the hash computed, but the entry is not
\* stored by the time the call goes on.
create_and_hash_entry_player_profile_deferred(p) ==
    /\ pc[p] = "join_profile"
    /\ LET player_profile == PlayerProfile(agent_info(p).agent_initial_pubkey,
                                           game_info[p].player_nickname)
       IN \E accepted \in (IF NumHeaders < MaxJoins THEN BOOLEAN ELSE {FALSE}) :
          /\ calls' = [calls EXCEPT ![p] = Append(@, Call("create_entry", accepted))]
          /\ IF accepted
             THEN /\ chain' = [chain EXCEPT ![p] = Append(@, hash_entry(player_profile))]
                  /\ player_profile_entry_hash' =
                        [player_profile_entry_hash EXCEPT ![p] = hash_entry(player_profile)]
                  /\ pc' = [pc EXCEPT ![p] = "join_link"]
                  /\ UNCHANGED <<result, dht>>
             ELSE /\ result' = [result EXCEPT ![p] = Err("WriteFailure")]
                  /\ pc' = [pc EXCEPT ![p] = "done"]
                  /\ UNCHANGED <<chain, dht, player_profile_entry_hash>>
    /\ UNCHANGED <<links, joined, game_info, game_code, game_anchor,
                   player_links, next_link, players, returned>>

\* create_and_hash_entry_player_profile(game_info.player_nickname)?: builds
\* the profile of the executing agent, commits it (a Create header and the
\* entry) and hashes it; a rejected create_entry ends the call.
create_and_hash_entry_player_profile(p) ==
    /\ pc[p] = "join_profile"
    /\ LET player_agent == agent_info(p)
           player_profile == PlayerProfile(player_agent.agent_initial_pubkey,
                                           game_info[p].player_nickname)
       IN \E accepted \in (IF NumHeaders < MaxJoins THEN BOOLEAN ELSE {FALSE}) :
          /\ calls' = [calls EXCEPT ![p] = Append(@, Call("create_entry", accepted))]
          /\ IF accepted
             THEN /\ chain' = [chain EXCEPT ![p] = Append(@, hash_entry(player_profile))]
                  /\ dht' = dht \cup {player_profile}
                  /\ player_profile_entry_hash' =
                        [player_profile_entry_hash EXCEPT ![p] = hash_entry(player_profile)]
                  /\ pc' = [pc EXCEPT ![p] = "join_link"]
                  /\ UNCHANGED result
             ELSE /\ result' = [result EXCEPT ![p] = Err("WriteFailure")]
                  /\ pc' = [pc EXCEPT ![p] = "done"]
                  /\ UNCHANGED <<chain, dht, player_profile_entry_hash>>
    /\ UNCHANGED <<links, joined, game_info, game_code, game_anchor,
                   player_links, next_link, players, returned>>

\* Mutant: join_game returns the profile's hash, an EntryHash too.
JoinGame_ReturnValue_profile(p) == player_profile_entry_hash[p]

\* Ok(game_anchor): the value join_game returns.
JoinGame_ReturnValue(p) == game_anchor[p]

\* Mutant: the link is written from every game's anchor, not only from the
\* anchor of the game joined.
JoinGame_CreateLink_every_anchor(p) ==
    /\ pc[p] = "join_link"
    /\ \E accepted \in BOOLEAN :
          /\ calls' = [calls EXCEPT ![p] = Append(@, Call("create_link", accepted))]
          /\ IF accepted
             THEN /\ links' = [b \in Anchors |->
                                 CreateLink(links, b, player_profile_entry_hash[p],
                                            PLAYER_LINK_TAG, p)[b]]
                  /\ result' = [result EXCEPT ![p] = Ok]
                  /\ returned' = [returned EXCEPT ![p] = game_anchor[p]]
                  /\ joined' = [joined EXCEPT ![game_info[p].game_code] =
                                    Append(@, [id |-> p,
                                               nickname |-> game_info[p].player_nickname,
                                               link |-> Len(links[game_anchor[p]]) + 1])]
             ELSE /\ result' = [result EXCEPT ![p] = Err("LinkFailure")]
                  /\ UNCHANGED <<links, returned, joined>>
    /\ pc' = [pc EXCEPT ![p] = "done"]
    /\ UNCHANGED <<dht, chain, game_info, game_code, game_anchor,
                   player_profile_entry_hash, player_links, next_link,
                   players>>

\* Mutant: a rejected create_link is tried again.
JoinGame_CreateLink_retry(p) ==
    /\ pc[p] = "join_link"
    /\ \E accepted \in BOOLEAN :
          /\ calls' = [calls EXCEPT ![p] = Append(@, Call("create_link", accepted))]
          /\ IF accepted
             THEN /\ links' = CreateLink(links, game_anchor[p],
                                         player_profile_entry_hash[p],
                                         PLAYER_LINK_TAG, p)
                  /\ result' = [result EXCEPT ![p] = Ok]
                  /\ returned' = [returned EXCEPT ![p] = game_anchor[p]]
                  /\ joined' = [joined EXCEPT ![game_info[p].game_code] =
                                    Append(@, [id |-> p,
                                               nickname |-> game_info[p].player_nickname,
                                               link |-> Len(links[game_anchor[p]]) + 1])]
                  /\ pc' = [pc EXCEPT ![p] = "done"]
             ELSE UNCHANGED <<links, returned, joined, result, pc>>
    /\ UNCHANGED <<dht, chain, game_info, game_code, game_anchor,
                   player_profile_entry_hash, player_links, next_link,
                   players>>

\* Mutant: a rejected create_link is compensated by removing the profile.
JoinGame_CreateLink_rollback(p) ==
    /\ pc[p] = "join_link"
    /\ \E accepted \in BOOLEAN :
          /\ calls' = [calls EXCEPT ![p] = Append(@, Call("create_link", accepted))]
          /\ IF accepted
             THEN /\ links' = CreateLink(links, game_anchor[p],
                                         player_profile_entry_hash[p],
                                         PLAYER_LINK_TAG, p)
                  /\ result' = [result EXCEPT ![p] = Ok]
                  /\ returned' = [returned EXCEPT ![p] = game_anchor[p]]
                  /\ joined' = [joined EXCEPT ![game_info[p].game_code] =
                                    Append(@, [id |-> p,
                                               nickname |-> game_info[p].player_nickname,
                                               link |-> Len(links[game_anchor[p]]) + 1])]
                  /\ UNCHANGED dht
             ELSE /\ result' = [result EXCEPT ![p] = Err("LinkFailure")]
                  /\ dht' = {e \in dht : hash_entry(e) # player_profile_entry_hash[p]}
                  /\ UNCHANGED <<links, returned, joined>>
    /\ pc' = [pc EXCEPT ![p] = "done"]
    /\ UNCHANGED <<chain, game_info, game_code, game_anchor,
                   player_profile_entry_hash, player_links, next_link, players>>

\* create_link(game_anchor, player_profile_entry_hash, PLAYER_LINK_TAG)?;
\* Ok(game_anchor)
JoinGame_CreateLink(p) ==
    /\ pc[p] = "join_link"
    /\ \E accepted \in BOOLEAN :
          /\ calls' = [calls EXCEPT ![p] = Append(@, Call("create_link", accepted))]
          /\ IF accepted
             THEN /\ links' = CreateLink(links, game_anchor[p],
                                         player_profile_entry_hash[p],
                                         PLAYER_LINK_TAG, p)
                  /\ result' = [result EXCEPT ![p] = Ok]
                  /\ returned' = [returned EXCEPT ![p] = JoinGame_ReturnValue(p)]
                  /\ joined' = [joined EXCEPT ![game_info[p].game_code] =
                                    Append(@, [id |-> p,
                                               nickname |-> game_info[p].player_nickname,
                                               link |-> Len(links[game_anchor[p]]) + 1])]
             ELSE /\ result' = [result EXCEPT ![p] = Err("LinkFailure")]
                  /\ UNCHANGED <<links, returned, joined>>
    /\ pc' = [pc EXCEPT ![p] = "done"]
    /\ UNCHANGED <<dht, chain, game_info, game_code, game_anchor,
                   player_profile_entry_hash, player_links, next_link,
                   players>>

\* ------------------------------------------------------------ get_game_players
\* A caller invokes get_game_players(game_code):
\* let game_anchor = get_game_anchor(game_code)?;
GetGamePlayers_GetAnchor(p, code) ==
    /\ pc[p] = "idle"
    /\ game_code' = [game_code EXCEPT ![p] = code]
    /\ LET r == get_game_anchor(code) IN
       /\ calls' = [calls EXCEPT ![p] = Append(@, Call("get_game_anchor", r.ok))]
       /\ IF r.ok
          THEN /\ game_anchor' = [game_anchor EXCEPT ![p] = r.val]
               /\ pc' = [pc EXCEPT ![p] = "list_links"]
               /\ UNCHANGED result
          ELSE /\ result' = [result EXCEPT ![p] = Err("InvalidGameCode")]
               /\ pc' = [pc EXCEPT ![p] = "done"]
               /\ UNCHANGED game_anchor
    /\ UNCHANGED <<store, joined, game_info,
                   player_profile_entry_hash, player_links, next_link, players,
                   returned>>

\* let player_links = get_links(game_anchor, Some(PLAYER_LINK_TAG))?;
\* let mut players = vec![];
GetGamePlayers_GetLinks(p) ==
    /\ pc[p] = "list_links"
    /\ player_links' = [player_links EXCEPT ![p] = get_links(game_anchor[p], PLAYER_LINK_TAG)]
    /\ next_link' = [next_link EXCEPT ![p] = 1]
    /\ players' = [players EXCEPT ![p] = <<>>]
    /\ calls' = [calls EXCEPT ![p] = Append(@, Call("get_links", TRUE))]
    /\ pc' = [pc EXCEPT ![p] = "list_loop"]
    /\ UNCHANGED <<store, joined, game_info, game_code, game_anchor,
                   player_profile_entry_hash, result, returned>>

\* Mutant: the two errors of the loop body are swapped.
FetchPlayer_swapped(link) ==
    LET element == Get(link.target) IN
    IF element = {} THEN [res |-> Err("RecordTypeMismatch"), got |-> FALSE]
    ELSE LET entry == CHOOSE e \in element : TRUE IN
         IF IsPlayerProfile(entry)
         THEN [res |-> Ok, got |-> TRUE, player_profile |-> entry]
         ELSE [res |-> Err("RecordNotFound"), got |-> TRUE]

\* The body of the loop for one link: get(link.target), "Entry not found"
\* when nothing is there, "The targeted entry is not agent pubkey" when the
\* entry is no PlayerProfile, else the profile.
FetchPlayer(link) ==
    LET element == Get(link.target) IN
    IF element = {} THEN [res |-> Err("RecordNotFound"), got |-> FALSE]
    ELSE LET entry == CHOOSE e \in element : TRUE IN
         IF IsPlayerProfile(entry)
         THEN [res |-> Ok, got |-> TRUE, player_profile |-> entry]
         ELSE [res |-> Err("RecordTypeMismatch"), got |-> TRUE]

\* Mutant: players is kept free of duplicates: a profile already in it is not
\* pushed again.
GetGamePlayers_Fetch_dedup(p) ==
    /\ pc[p] = "list_loop"
    /\ next_link[p] <= Len(player_links[p])
    /\ LET f == FetchPlayer(player_links[p][next_link[p]]) IN
       /\ calls' = [calls EXCEPT ![p] = Append(@, Call("get", f.got))]
       /\ IF f.res = Ok
          THEN /\ players' = [players EXCEPT ![p] =
                                 IF \E i \in 1..Len(@) : @[i] = f.player_profile
                                 THEN @ ELSE Append(@, f.player_profile)]
               /\ next_link' = [next_link EXCEPT ![p] = @ + 1]
               /\ UNCHANGED <<result, pc>>
          ELSE /\ result' = [result EXCEPT ![p] = f.res]
               /\ pc' = [pc EXCEPT ![p] = "done"]
               /\ UNCHANGED <<players, next_link>>
    /\ UNCHANGED <<store, joined, game_info, game_code, game_anchor,
                   player_profile_entry_hash, player_links, returned>>

\* Mutant: a link whose fetch fails is removed from the anchor before the call
\* ends with the error.
GetGamePlayers_Fetch_prune(p) ==
    /\ pc[p] = "list_loop"
    /\ next_link[p] <= Len(player_links[p])
    /\ LET link == player_links[p][next_link[p]]
           f == FetchPlayer(link)
       IN
       /\ calls' = [calls EXCEPT ![p] = Append(@, Call("get", f.got))]
       /\ IF f.res = Ok
          THEN /\ players' = [players EXCEPT ![p] = Append(@, f.player_profile)]
               /\ next_link' = [next_link EXCEPT ![p] = @ + 1]
               /\ UNCHANGED <<result, pc, links>>
          ELSE /\ result' = [result EXCEPT ![p] = f.res]
               /\ pc' = [pc EXCEPT ![p] = "done"]
               /\ links' = [links EXCEPT ![link.base] =
                                SelectSeq(@, LAMBDA l : l.id # link.id)]
               /\ UNCHANGED <<players, next_link>>
    /\ UNCHANGED <<dht, chain, joined, game_info, game_code, game_anchor,
                   player_profile_entry_hash, player_links, returned>>

\* Mutant: a link whose fetch fails is skipped and the loop goes on.
GetGamePlayers_Fetch_skip(p) ==
    /\ pc[p] = "list_loop"
    /\ next_link[p] <= Len(player_links[p])
    /\ LET f == FetchPlayer(player_links[p][next_link[p]]) IN
       /\ calls' = [calls EXCEPT ![p] = Append(@, Call("get", f.got))]
       /\ players' = [players EXCEPT ![p] =
                         IF f.res = Ok THEN Append(@, f.player_profile) ELSE @]
       /\ next_link' = [next_link EXCEPT ![p] = @ + 1]
    /\ UNCHANGED <<store, joined, game_info, game_code, game_anchor,
                   player_profile_entry_hash, player_links, returned, result, pc>>

\* One iteration of `for link in player_links.into_inner()`: an Err ends the
\* call (the ? operator), else players.push(player_profile).
GetGamePlayers_Fetch(p) ==
    /\ pc[p] = "list_loop"
    /\ next_link[p] <= Len(player_links[p])
    /\ LET f == FetchPlayer(player_links[p][next_link[p]]) IN
       /\ calls' = [calls EXCEPT ![p] = Append(@, Call("get", f.got))]
       /\ IF f.res = Ok
          THEN /\ players' = [players EXCEPT ![p] = Append(@, f.player_profile)]
               /\ next_link' = [next_link EXCEPT ![p] = @ + 1]
               /\ UNCHANGED <<result, pc>>
          ELSE /\ result' = [result EXCEPT ![p] = f.res]
               /\ pc' = [pc EXCEPT ![p] = "done"]
               /\ UNCHANGED <<players, next_link>>
    /\ UNCHANGED <<store, joined, game_info, game_code, game_anchor,
                   player_profile_entry_hash, player_links, returned>>

\* Ok(players)
GetGamePlayers_Return(p) ==
    /\ pc[p] = "list_loop"
    /\ next_link[p] > Len(player_links[p])
    /\ result' = [result EXCEPT ![p] = Ok]
    /\ pc' = [pc EXCEPT ![p] = "done"]
    /\ UNCHANGED <<store, joined, locals, calls>>

\* ------------------------------------------------------------------ callers
\* The caller has taken the result; the locals of the call are dropped.
Return(p) ==
    /\ pc[p] = "done"
    /\ pc' = [pc EXCEPT ![p] = "idle"]
    /\ game_info' = [game_info EXCEPT ![p] = NoJoinGameInfo]
    /\ game_code' = [game_code EXCEPT ![p] = ""]
    /\ game_anchor' = [game_anchor EXCEPT ![p] = NoHash]
    /\ player_profile_entry_hash' = [player_profile_entry_hash EXCEPT ![p] = NoHash]
    /\ player_links' = [player_links EXCEPT ![p] = <<>>]
    /\ next_link' = [next_link EXCEPT ![p] = 1]
    /\ players' = [players EXCEPT ![p] = <<>>]
    /\ result' = [result EXCEPT ![p] = NoResult]
    /\ returned' = [returned EXCEPT ![p] = NoHash]
    /\ calls' = [calls EXCEPT ![p] = <<>>]
    /\ UNCHANGED <<store, joined>>

\* Another writer on the shared store links something from a game's anchor.
\* What such a writer links: an entry of another kind or an address holding
\* nothing, under the tag PLAYER; or an address holding nothing under another
\* tag.
ForeignLinks ==
    {[target |-> hash_entry(OtherEntry), tag |-> PLAYER_LINK_TAG],
     [target |-> MissingHash, tag |-> PLAYER_LINK_TAG],
     [target |-> MissingHash, tag |-> "OTHER"]}
\* The game such a writer links from.
ForeignCode == "ABC123"

ForeignLink(f) ==
    /\ NumForeign < MaxForeign
    /\ links' = CreateLink(links, get_game_anchor(ForeignCode).val,
                           f.target, f.tag, Other)
    /\ UNCHANGED <<dht, chain, joined, pc, locals, result, calls>>

Next ==
    \/ \E p \in Agents, info \in JoinRequests : JoinGame_GetAnchor(p, info)
    \/ \E p \in Agents : create_and_hash_entry_player_profile(p)
    \/ \E p \in Agents : JoinGame_CreateLink(p)
    \/ \E p \in Listers, c \in GameCodes : GetGamePlayers_GetAnchor(p, c)
    \/ \E p \in Agents : GetGamePlayers_GetLinks(p)
    \/ \E p \in Agents : GetGamePlayers_Fetch(p)
    \/ \E p \in Agents : GetGamePlayers_Return(p)
    \/ \E p \in Agents : Return(p)
    \/ \E f \in ForeignLinks : ForeignLink(f)

Spec == Init /\ [][Next]_vars

\* ------------------------------------------------------------------ claims
\* The call of p that has ended is a join_game / a get_game_players.
JoinDone(p) == pc[p] = "done" /\ game_info[p] # NoJoinGameInfo
ListDone(p) == pc[p] = "done" /\ game_info[p] = NoJoinGameInfo
ValidCodes == {c \in GameCodes : get_game_anchor(c).ok}
AnchorOf(c) == get_game_anchor(c).val
Indices(sq) == 1..Len(sq)

\* C1 (membership visibility): a get_game_players(c) that an agent runs after
\* its own successful join_game(c, n) either fails on a link another writer
\* made, or returns, for that join, exactly one record that comes from the
\* join's link, and that record carries the nickname n and the agent's key;
\* and no listing taken before the join holds the join's link.
C1_ListAfterJoin ==
    \A p \in Agents :
        ListDone(p) /\ game_code[p] \in ValidCodes =>
            /\ result[p] # Ok =>
                  /\ result[p].err \in {"RecordNotFound", "RecordTypeMismatch"}
                  /\ next_link[p] \in Indices(player_links[p])
                  /\ player_links[p][next_link[p]].author = Other
            /\ result[p] = Ok =>
                  \A k \in Indices(joined[game_code[p]]) :
                      LET j == joined[game_code[p]][k]
                          at == {i \in Indices(player_links[p]) :
                                    player_links[p][i].id = j.link}
                      IN j.id = p =>
                            /\ Cardinality(at) = 1
                            /\ Len(players[p]) = Len(player_links[p])
                            /\ \A i \in at :
                                  players[p][i] = PlayerProfile(p, j.nickname)

C1_NotPresentBefore ==
    \A p \in Agents, q \in Agents :
        (pc[p] = "join_link" /\ pc'[p] = "done" /\ result'[p] = Ok) =>
            \A i \in Indices(player_links[q]) :
                ~ (/\ player_links[q][i].base = game_anchor[p]
                   /\ player_links[q][i].id = Len(links'[game_anchor[p]]))

C2_NoFalseMembership ==
    \A p \in Agents :
        game_code[p] \in ValidCodes =>
            \A i \in Indices(players[p]) :
                \E l \in AllLinks :
                    /\ l.base = AnchorOf(game_code[p])
                    /\ l.tag = PLAYER_LINK_TAG
                    /\ Get(l.target) = {players[p][i]}

\* A listing has returned records while a profile persisted for the other game
\* is not linked from the listed game's anchor.
C2_Witness ==
    \E p \in Agents :
        /\ ListDone(p) /\ result[p] = Ok /\ Len(players[p]) >= 1
        /\ \E e \in dht :
              /\ IsPlayerProfile(e)
              /\ \A l \in AllLinks :
                    l.target = hash_entry(e) => l.base # AnchorOf(game_code[p])

\* The profile a join_game of p builds from its argument.
ProfileOf(p) == PlayerProfile(p, game_info[p].player_nickname)
\* A join_game of p has ended with this error.
JoinFailed(p, e) == JoinDone(p) /\ result[p] = Err(e)
\* How often x occurs in the sequence sq.
Count(sq, x) == Cardinality({i \in Indices(sq) : sq[i] = x})
\* The successful joins to code c, by agent p under nickname n.
JoinsOf(c, p, n) ==
    {k \in Indices(joined[c]) : joined[c][k].id = p /\ joined[c][k].nickname = n}

\* C3 as stated (partial-failure containment): when a join's create_link is
\* rejected after its profile was persisted, join reports LinkFailure, the
\* profile stays retrievable by its address, and a get_game_players of that
\* game code that returns afterwards does not hold that record. (Stated for
\* stores no other writer has linked into.)
C3_AsStatedStep ==
    \A p \in Agents, q \in Agents :
        (/\ JoinFailed(p, "LinkFailure") /\ NumForeign = 0
         /\ pc[q] = "list_loop" /\ pc'[q] = "done" /\ result'[q] = Ok
         /\ game_code[q] = game_info[p].game_code) =>
            /\ Get(player_profile_entry_hash[p]) = {ProfileOf(p)}
            /\ Count(players'[q], ProfileOf(p)) = 0

C3_AsStated == [][C3_AsStatedStep]_vars

\* C3 as amended: when a join's create_link is rejected after its profile was
\* persisted, join reports LinkFailure having made exactly the calls
\* get_game_anchor, create_entry, create_link, the profile and its Create
\* header stay, the join has added no link, and a listing of that game code
\* holds that record, through links of this agent, exactly as often as the
\* listing holds links of the agent's successful joins under the same nickname.
C3_PartialFailureContained ==
    \A p \in Agents :
        JoinFailed(p, "LinkFailure") =>
            LET c == game_info[p].game_code
                n == game_info[p].player_nickname
                h == player_profile_entry_hash[p]
            IN /\ calls[p] = <<Call("get_game_anchor", TRUE),
                               Call("create_entry", TRUE),
                               Call("create_link", FALSE)>>
               /\ Get(h) = {ProfileOf(p)}
               /\ Count(chain[p], h) >= 1
               /\ returned[p] = NoHash
               /\ Cardinality({l \in AllLinks : l.base = AnchorOf(c) /\ l.author = p
                                                /\ l.target = h})
                     = Cardinality(JoinsOf(c, p, n))
               /\ \A q \in Agents :
                     ListDone(q) /\ result[q] = Ok /\ game_code[q] = c =>
                         /\ Cardinality({i \in Indices(player_links[q]) :
                                            /\ player_links[q][i].author = p
                                            /\ players[q][i] = ProfileOf(p)})
                               = Cardinality({k \in JoinsOf(c, p, n) :
                                     \E i \in Indices(player_links[q]) :
                                         player_links[q][i].id = joined[c][k].link})
                         /\ (JoinsOf(c, p, n) = {} /\ NumForeign = 0 =>
                                Count(players[q], ProfileOf(p)) = 0)

\* A join has failed at create_link while the other agent holds a listing of
\* the same game that was read after the profile was persisted.
C3_Witness ==
    \E p \in Agents, q \in Agents :
        /\ JoinFailed(p, "LinkFailure")
        /\ ListDone(q) /\ result[q] = Ok
        /\ game_code[q] = game_info[p].game_code
        /\ Len(players[q]) >= 1
        /\ Count(players[q], ProfileOf(p)) = 0

\* C4 (short-circuit on join): get_game_anchor is the first store call of a
\* join and writes nothing; when it fails the join ends with InvalidGameCode;
\* create_entry comes second and writes no link; when it is rejected nothing
\* is written and the join ends with WriteFailure; create_link comes third,
\* after both succeeded.
C4_Step(p) ==
    LET made == calls'[p][Len(calls'[p])] IN
    (game_info'[p] # NoJoinGameInfo /\ Len(calls'[p]) = Len(calls[p]) + 1) =>
        /\ made.call = "get_game_anchor" =>
              /\ calls[p] = <<>>
              /\ UNCHANGED store
              /\ ~ made.ok => pc'[p] = "done" /\ result'[p] = Err("InvalidGameCode")
        /\ made.call = "create_entry" =>
              /\ calls[p] = <<Call("get_game_anchor", TRUE)>>
              /\ UNCHANGED links
              /\ ~ made.ok => /\ UNCHANGED store
                              /\ pc'[p] = "done"
                              /\ result'[p] = Err("WriteFailure")
        /\ made.call = "create_link" =>
              /\ calls[p] = <<Call("get_game_anchor", TRUE), Call("create_entry", TRUE)>>
              /\ UNCHANGED <<dht, chain>>
        /\ made.call \in {"get_game_anchor", "create_entry", "create_link"}

C4_Ended ==
    \A p \in Agents :
        /\ JoinFailed(p, "InvalidGameCode") =>
              calls[p] = <<Call("get_game_anchor", FALSE)>>
        /\ JoinFailed(p, "WriteFailure") =>
              calls[p] = <<Call("get_game_anchor", TRUE), Call("create_entry", FALSE)>>

C4_ShortCircuit == [] C4_Ended /\ [][\A p \in Agents : C4_Step(p)]_vars

\* One join has ended with InvalidGameCode and another with WriteFailure.
C4_Witness ==
    \E p \in Agents, q \in Agents :
        JoinFailed(p, "InvalidGameCode") /\ JoinFailed(q, "WriteFailure")

\* C5 (join outcome): a join ends with Ok or with exactly one of
\* InvalidGameCode, WriteFailure, LinkFailure; with Ok it returns the anchor of
\* its game code, its profile is persisted and a PLAYER link of the agent
\* leads from that anchor to the profile, so get_links on the returned address
\* enumerates it; with an error it returns no address.
C5_JoinOutcome ==
    \A p \in Agents :
        JoinDone(p) =>
            /\ result[p] \in {Ok, Err("InvalidGameCode"), Err("WriteFailure"),
                              Err("LinkFailure")}
            /\ result[p] # Ok => returned[p] = NoHash
            /\ result[p] = Ok =>
                  /\ get_game_anchor(game_info[p].game_code).ok
                  /\ returned[p] = AnchorOf(game_info[p].game_code)
                  /\ Get(hash_entry(ProfileOf(p))) = {ProfileOf(p)}
                  /\ \E i \in Indices(get_links(returned[p], PLAYER_LINK_TAG)) :
                        LET l == get_links(returned[p], PLAYER_LINK_TAG)[i] IN
                        l.target = hash_entry(ProfileOf(p)) /\ l.author = p

\* A join has ended with Ok.
C5_Witness ==
    \E p \in Agents :
        JoinDone(p) /\ result[p] = Ok /\ returned[p] = <<"anchor", "XYZ999">>

\* C6 (fail-fast aggregation): a get_game_players that returns Ok has fetched
\* every link it enumerated, each target holds a PlayerProfile and that
\* profile is in the result at the link's position; the enumerated links are
\* the PLAYER links the anchor carried at read time; so a call that enumerated
\* a link whose target holds no PlayerProfile ends with an error.
BadTarget(l) == \A e \in Get(l.target) : ~ IsPlayerProfile(e)

C6_FailFast ==
    \A p \in Agents :
        ListDone(p) /\ game_code[p] \in ValidCodes =>
            LET now == get_links(AnchorOf(game_code[p]), PLAYER_LINK_TAG) IN
            /\ Len(player_links[p]) <= Len(now)
            /\ player_links[p] = SubSeq(now, 1, Len(player_links[p]))
            /\ result[p] = Ok =>
                  /\ Len(players[p]) = Len(player_links[p])
                  /\ \A i \in Indices(player_links[p]) :
                        Get(player_links[p][i].target) = {players[p][i]}
            /\ (\E i \in Indices(player_links[p]) : BadTarget(player_links[p][i]))
                  => result[p] \in {Err("RecordNotFound"), Err("RecordTypeMismatch")}

\* A listing has failed although the first link it enumerated was fetched.
C6_Witness ==
    \E p \in Agents :
        /\ ListDone(p) /\ result[p] # Ok /\ game_code[p] \in ValidCodes
        /\ Len(players[p]) >= 1
        /\ BadTarget(player_links[p][next_link[p]])

\* The links of the anchor of c that agents' joins created.
JoinLinks(c) ==
    {i \in Indices(links[AnchorOf(c)]) : links[AnchorOf(c)][i].author \in Agents}
\* The listing q holds was read when the anchor of c carried the PLAYER links
\* it carries now.
CurrentListing(q, c) ==
    /\ ListDone(q) /\ result[q] = Ok /\ game_code[q] = c
    /\ Len(player_links[q]) = Len(get_links(AnchorOf(c), PLAYER_LINK_TAG))

\* C7 (concurrent joins are safe): under every interleaving of the store calls
\* of the agents' joins, each join that returned Ok has a PLAYER link of its
\* own from the anchor to its persisted profile, the anchor carries one such
\* link per join, and a listing read from the current links holds, at each
\* join's link, the joiner's record.
C7_ConcurrentJoinsSafe ==
    \A c \in ValidCodes :
        LET a == AnchorOf(c)
            js == joined[c]
        IN /\ \A k \in Indices(js) :
                 /\ js[k].link \in Indices(links[a])
                 /\ links[a][js[k].link] =
                       [base |-> a,
                        target |-> hash_entry(PlayerProfile(js[k].id, js[k].nickname)),
                        tag |-> PLAYER_LINK_TAG, author |-> js[k].id,
                        id |-> js[k].link]
                 /\ Get(links[a][js[k].link].target) =
                       {PlayerProfile(js[k].id, js[k].nickname)}
           /\ \A k \in Indices(js), m \in Indices(js) :
                 k # m => js[k].link # js[m].link
           /\ Cardinality(JoinLinks(c)) = Len(js)
           /\ \A q \in Agents :
                 CurrentListing(q, c) =>
                     \A k \in Indices(js) :
                         \E i \in Indices(player_links[q]) :
                             /\ player_links[q][i].id = js[k].link
                             /\ players[q][i] = PlayerProfile(js[k].id, js[k].nickname)

\* Both agents hold the Ok of a join to the same game, and the anchor carries
\* their two links.
C7_Witness ==
    \E c \in ValidCodes :
        /\ \A p \in Agents :
              JoinDone(p) /\ result[p] = Ok /\ game_info[p].game_code = c
        /\ Len(joined[c]) = 2
        /\ joined[c][1].id # joined[c][2].id

\* C8 (join is not idempotent): joins are not deduplicated: for every game
\* code, agent and nickname the anchor carries as many PLAYER links of that
\* agent to that profile as joins with that input returned Ok, the agent's
\* chain holds a Create header for each of them, and a listing read from the
\* current links, none of them another writer's, returns as many records as
\* joins to the code returned Ok.
C8_NotIdempotent ==
    /\ \A c \in ValidCodes, p \in Agents, n \in Nicknames :
          LET h == hash_entry(PlayerProfile(p, n)) IN
          /\ Cardinality(JoinsOf(c, p, n)) =
                Cardinality({i \in Indices(links[AnchorOf(c)]) :
                                links[AnchorOf(c)][i] =
                                    [base |-> AnchorOf(c), target |-> h,
                                     tag |-> PLAYER_LINK_TAG, author |-> p,
                                     id |-> i]})
          /\ Count(chain[p], h) >= Cardinality(JoinsOf(c, p, n))
    /\ \A p \in Agents, n \in Nicknames :
          Count(chain[p], hash_entry(PlayerProfile(p, n))) >=
              Cardinality(UNION {{<<c, k>> : k \in JoinsOf(c, p, n)} : c \in ValidCodes})
    /\ \A c \in ValidCodes, q \in Agents :
          (/\ CurrentListing(q, c)
           /\ \A i \in Indices(player_links[q]) : player_links[q][i].author # Other)
          => Len(players[q]) = Len(joined[c])

\* The same agent has joined the same game twice under the same nickname and a
\* listing of the game returned the two equal records.
C8_Witness ==
    \E c \in ValidCodes, p \in Agents, n \in Nicknames, q \in Agents :
        /\ Cardinality(JoinsOf(c, p, n)) = 2
        /\ CurrentListing(q, c)
        /\ players[q] = <<PlayerProfile(p, n), PlayerProfile(p, n)>>

\* A step of p in which its create_entry was accepted.
Persisted(p) == Len(chain'[p]) = Len(chain[p]) + 1

\* C9 as stated (a new join always produces a new record): every join that
\* persists a profile creates a record that did not exist before, and what is
\* stored at every address that existed is unchanged.
C9_AsStatedStep ==
    \A p \in Agents :
        Persisted(p) =>
            /\ Get(hash_entry(ProfileOf(p))) = {}
            /\ \A e \in dht : e \in dht'

C9_AsStated == [][C9_AsStatedStep]_vars

\* C9 as amended: every join that persists a profile stores it at the address
\* of its content: either nothing was stored there before, or the same content
\* (same agent, same nickname) was, and then the records are what they were;
\* what is stored at every address that existed is unchanged, no two stored
\* records share an address, and every Create header's address holds a
\* profile of the header's author.
C9_PersistStep ==
    \A p \in Agents :
        Persisted(p) =>
            LET h == hash_entry(ProfileOf(p)) IN
            /\ chain'[p] = Append(chain[p], h)
            /\ Get(h) \in {{}, {ProfileOf(p)}}
            /\ dht' = dht \cup {ProfileOf(p)}
            /\ Get(h) # {} => dht' = dht
            /\ \A e \in dht : e \in dht'

C9_Stored ==
    /\ \A e1 \in dht, e2 \in dht : hash_entry(e1) = hash_entry(e2) => e1 = e2
    /\ \A p \in Agents :
          \A i \in Indices(chain[p]) :
              \E n \in Nicknames : Get(chain[p][i]) = {PlayerProfile(p, n)}

C9_NewOrIdenticalRecord == [] C9_Stored /\ [][C9_PersistStep]_vars

\* An agent's join has just persisted a profile the agent had persisted before.
C9_Witness ==
    \E p \in Agents :
        /\ pc[p] = "join_link"
        /\ Len(chain[p]) = 2 /\ chain[p][1] = chain[p][2]
        /\ chain[p][2] = player_profile_entry_hash[p]

\* C10 (first error surfaced): a get_game_players that fails on a link has
\* fetched the links before it, each of them a PlayerProfile now in players,
\* and has made no get after the failing one; its error is RecordNotFound when
\* the get found nothing and RecordTypeMismatch when the entry found is no
\* PlayerProfile.
LinkErrors == {Err("RecordNotFound"), Err("RecordTypeMismatch")}

C10_FirstError ==
    \A p \in Agents :
        ListDone(p) =>
            /\ result[p] \in LinkErrors \cup {Ok, Err("InvalidGameCode")}
            /\ result[p] \in LinkErrors =>
                  LET i == next_link[p] IN
                  /\ i \in Indices(player_links[p])
                  /\ Len(players[p]) = i - 1
                  /\ \A j \in 1..(i - 1) :
                        /\ IsPlayerProfile(players[p][j])
                        /\ Get(player_links[p][j].target) = {players[p][j]}
                  /\ calls[p] =
                        <<Call("get_game_anchor", TRUE), Call("get_links", TRUE)>>
                        \o [j \in 1..(i - 1) |-> Call("get", TRUE)]
                        \o <<Call("get", result[p] = Err("RecordTypeMismatch"))>>
                  /\ Get(player_links[p][i].target) = {} =>
                        result[p] = Err("RecordNotFound")
                  /\ result[p] = Err("RecordTypeMismatch") =>
                        /\ Get(player_links[p][i].target) # {}
                        /\ BadTarget(player_links[p][i])

\* A listing that enumerated three links has fetched the first and failed on
\* the second, an entry that is no PlayerProfile; the third, which it has not
\* fetched, leads to nothing.
C10_Witness ==
    \E p \in Agents :
        /\ ListDone(p) /\ result[p] = Err("RecordTypeMismatch")
        /\ next_link[p] = 2 /\ Len(player_links[p]) = 3
        /\ Get(player_links[p][3].target) = {}

\* What get_game_players(c) returns when it runs on the store as it is: the
\* loop over the enumerated links, ended by the first Err.
RECURSIVE WalkLinks(_, _, _)
WalkLinks(ls, i, acc) ==
    IF i > Len(ls) THEN [res |-> Ok, players |-> acc]
    ELSE LET f == FetchPlayer(ls[i]) IN
         IF f.res = Ok THEN WalkLinks(ls, i + 1, Append(acc, f.player_profile))
         ELSE [res |-> f.res, players |-> <<>>]

ListMembers(c) == WalkLinks(get_links(AnchorOf(c), PLAYER_LINK_TAG), 1, <<>>)

\* The anchor of c carries a PLAYER link that no join_game wrote.
ForeignPlayerLink(c) ==
    \E l \in AllLinks :
        l.base = AnchorOf(c) /\ l.tag = PLAYER_LINK_TAG /\ l.author = Other

\* C11 (isolation between game codes): a get_game_players(c) for a well-formed
\* code c to which no join_game has returned Ok (and whose anchor carries no
\* PLAYER link of another writer) returns Ok with the empty sequence; and no
\* step of a join_game to a code c1 changes what get_game_players(c2) returns
\* for a code c2 that resolves to another anchor.
C11_UnusedCodeEmpty ==
    \A q \in Agents, c \in ValidCodes :
        (/\ ListDone(q) /\ game_code[q] = c
         /\ joined[c] = <<>> /\ ~ ForeignPlayerLink(c)) =>
            /\ result[q] = Ok
            /\ players[q] = <<>>
            /\ player_links[q] = <<>>
            /\ ListMembers(c) = [res |-> Ok, players |-> <<>>]

C11_JoinStep ==
    \A p \in Agents :
        (game_info'[p] # NoJoinGameInfo /\ pc'[p] # pc[p]) =>
            \A c2 \in ValidCodes :
                (get_game_anchor(game_info'[p].game_code).ok =>
                    AnchorOf(c2) # AnchorOf(game_info'[p].game_code)) =>
                        /\ ListMembers(c2)' = ListMembers(c2)
                        /\ links'[AnchorOf(c2)] = links[AnchorOf(c2)]

C11_Isolation == [] C11_UnusedCodeEmpty /\ [][C11_JoinStep]_vars

\* A listing of a code has returned the empty sequence although a join to that
\* code persisted its profile (and failed at create_link) and a join to the
\* other code returned Ok.
C11_Witness ==
    \E q \in Agents, p \in Agents, c \in ValidCodes, c1 \in ValidCodes :
        /\ ListDone(q) /\ result[q] = Ok /\ game_code[q] = c /\ players[q] = <<>>
        /\ JoinFailed(p, "LinkFailure") /\ game_info[p].game_code = c
        /\ c1 # c /\ Len(joined[c1]) >= 1

\* The join_game of p has persisted its profile.
HasPersisted(p) == player_profile_entry_hash[p] # NoHash

\* C12 (owner identity is not spoofable): every profile the store holds
\* carries the key of an agent whose chain has the Create header for it, and
\* no other agent's chain has one; the profile a join_game has persisted is
\* the one made of the executing agent's key and the request's nickname,
\* whatever the request; and the profiles two agents persisted for equal
\* requests differ in id, so they are stored at different addresses.
C12_OwnerNotSpoofable ==
    /\ \A e \in dht :
          IsPlayerProfile(e) =>
              /\ e.id \in Agents
              /\ \A p \in Agents :
                    (\E i \in Indices(chain[p]) : chain[p][i] = hash_entry(e))
                        <=> p = e.id
    /\ \A p \in Agents :
          HasPersisted(p) =>
              /\ Get(player_profile_entry_hash[p]) =
                    {[entry_type |-> "player_profile", id |-> p,
                      nickname |-> game_info[p].player_nickname]}
              /\ chain[p][Len(chain[p])] = player_profile_entry_hash[p]
    /\ \A p \in Agents, q \in Agents :
          (p # q /\ HasPersisted(p) /\ HasPersisted(q)) =>
              /\ player_profile_entry_hash[p] # player_profile_entry_hash[q]
              /\ \A e \in Get(player_profile_entry_hash[p]),
                    f \in Get(player_profile_entry_hash[q]) : e.id # f.id

\* Two agents have persisted their profiles for the same request.
C12_Witness ==
    \E p \in Agents, q \in Agents :
        /\ p # q /\ HasPersisted(p) /\ HasPersisted(q)
        /\ game_info[p] = game_info[q]
        /\ pc[p] = "join_link" /\ pc[q] = "join_link"

\* The sequence a is a prefix of the sequence b.
IsPrefix(a, b) == Len(a) <= Len(b) /\ a = SubSeq(b, 1, Len(a))

\* C13 (append-only store): in every step of every interleaving of join_game
\* and get_game_players calls, every entry that was stored is still stored,
\* with the same content at the same address; every link that existed is
\* still there, unaltered and at its position; and every Create header of
\* every chain is still there.
C13_Step ==
    /\ \A e \in dht : e \in dht' /\ Get(hash_entry(e))' = Get(hash_entry(e))
    /\ \A b \in Anchors : IsPrefix(links[b], links'[b])
    /\ \A p \in Agents : IsPrefix(chain[p], chain'[p])

C13_AppendOnly == [][C13_Step]_vars

\* Two profiles are stored and four links exist while a listing has ended.
C13_Witness ==
    /\ Cardinality({e \in dht : IsPlayerProfile(e)}) = 2
    /\ Cardinality(AllLinks) = 4
    /\ \E q \in Agents : ListDone(q) /\ Len(players[q]) >= 1

\* C14 (record before link): in every reachable state, the intermediate
\* states of interleaved joins included, every link a join_game created is a
\* PLAYER link whose target holds a PlayerProfile of the link's author; a
\* join_game that is about to create its link has its profile persisted; and
\* in no get_game_players does the fetch of a join-created link fail, whether
\* the link was enumerated or fetched already.
C14_RecordBeforeLink ==
    /\ \A l \in AllLinks :
          l.author \in Agents =>
              /\ l.tag = PLAYER_LINK_TAG
              /\ \E n \in Nicknames : Get(l.target) = {PlayerProfile(l.author, n)}
    /\ \A p \in Agents :
          pc[p] = "join_link" =>
              /\ Get(player_profile_entry_hash[p]) = {ProfileOf(p)}
              /\ calls[p] = <<Call("get_game_anchor", TRUE), Call("create_entry", TRUE)>>
    /\ \A q \in Agents :
          \A i \in Indices(player_links[q]) :
              player_links[q][i].author \in Agents =>
                  /\ FetchPlayer(player_links[q][i]).res = Ok
                  /\ (result[q] # Ok /\ ListDone(q)) => next_link[q] # i

\* A reader has listed a game, without error, while a join to that game had
\* persisted its profile and not yet created its link: the profile is stored,
\* no link leads to it and the listing does not hold it.
C14_Witness ==
    \E p \in Agents, q \in Agents :
        /\ pc[p] = "join_link"
        /\ Get(player_profile_entry_hash[p]) = {ProfileOf(p)}
        /\ \A l \in AllLinks : l.target # player_profile_entry_hash[p]
        /\ ListDone(q) /\ result[q] = Ok
        /\ game_code[q] = game_info[p].game_code
        /\ Len(players[q]) >= 1
        /\ Count(players[q], ProfileOf(p)) = 0

\* The positions, among the links of the anchor of c, of those tagged PLAYER.
PlayerLinkPositions(c) ==
    {i \in Indices(links[AnchorOf(c)]) : links[AnchorOf(c)][i].tag = PLAYER_LINK_TAG}

\* C15 (one record per link, in enumeration order): the get_links step of a
\* get_game_players(c) enumerates each PLAYER link the anchor of c carries at
\* that moment once, in the order of the anchor's links; and when the call
\* returns Ok, players has one element per enumerated link, the i-th being
\* the record stored at the target of the i-th link, so links to one address
\* yield its record once each.
C15_ReadStep ==
    \A q \in Agents :
        (pc[q] = "list_links" /\ pc'[q] = "list_loop") =>
            LET c == game_code[q]
                ls == player_links'[q]
            IN /\ Len(ls) = Cardinality(PlayerLinkPositions(c))
               /\ \A i \in Indices(ls) :
                     /\ ls[i].id \in PlayerLinkPositions(c)
                     /\ ls[i] = links[AnchorOf(c)][ls[i].id]
               /\ \A i \in Indices(ls), j \in Indices(ls) :
                     i < j => ls[i].id < ls[j].id

C15_Returned ==
    \A q \in Agents :
        (ListDone(q) /\ result[q] = Ok /\ game_code[q] \in ValidCodes) =>
            /\ Len(players[q]) = Len(player_links[q])
            /\ \A i \in Indices(player_links[q]) :
                  /\ players[q][i] \in Get(player_links[q][i].target)
                  /\ hash_entry(players[q][i]) = player_links[q][i].target
            /\ \A i \in Indices(player_links[q]) :
                  Count(players[q], players[q][i]) =
                      Cardinality({j \in Indices(player_links[q]) :
                          player_links[q][j].target = player_links[q][i].target})

C15_OneRecordPerLink == [] C15_Returned /\ [][C15_ReadStep]_vars

\* A listing has returned two records for two links to one address, read from
\* an anchor that carries a third link under another tag.
C15_Witness ==
    \E q \in Agents :
        /\ ListDone(q) /\ result[q] = Ok /\ game_code[q] \in ValidCodes
        /\ Len(player_links[q]) = 2
        /\ player_links[q][1].target = player_links[q][2].target
        /\ Len(players[q]) = 2
        /\ Len(links[AnchorOf(game_code[q])]) = 3

\* The names of the store calls of the running call of p, in order.
CallNames(p) == [i \in Indices(calls[p]) |-> calls[p][i].call]
\* The number of join_game calls of p that returned Ok.
JoinCount(p) ==
    Cardinality(UNION {{<<c, k>> : k \in {i \in Indices(joined[c]) : joined[c][i].id = p}}
                          : c \in ValidCodes})

\* C16 (no retries): the store calls of a join_game are a prefix of
\* get_game_anchor, create_entry, create_link, each made at most once; a call
\* that failed is the last one and the join has ended with an error; and over
\* all its joins an agent has written as many links as joins returned Ok, so
\* no join writes two links.
C16_NoRetries ==
    \A p \in Agents :
        /\ game_info[p] # NoJoinGameInfo =>
              /\ IsPrefix(CallNames(p),
                          <<"get_game_anchor", "create_entry", "create_link">>)
              /\ \A i \in Indices(calls[p]) :
                    ~ calls[p][i].ok =>
                        /\ i = Len(calls[p])
                        /\ pc[p] = "done"
                        /\ result[p] \notin {Ok, NoResult}
              /\ Len(calls[p]) = 3 => pc[p] = "done"
        /\ Cardinality({l \in AllLinks : l.author = p}) = JoinCount(p)
        /\ Len(chain[p]) >= JoinCount(p)

\* One join has ended with LinkFailure after its three store calls, and the
\* join of the other agent has returned Ok after its three.
C16_Witness ==
    \E p \in Agents, q \in Agents :
        /\ JoinFailed(p, "LinkFailure") /\ Len(calls[p]) = 3
        /\ JoinDone(q) /\ result[q] = Ok /\ Len(calls[q]) = 3
        /\ JoinCount(p) = 0 /\ JoinCount(q) = 1

\* C17 (tag filter), for a store whose get_links selects the links that carry
\* exactly the tag asked for: every link a get_game_players(c) has enumerated
\* is a link from the anchor of c with the tag PLAYER_LINK_TAG, the tag of
\* every link a join_game wrote; a link with another tag is the source of no
\* record of the result, and is not what a failed listing failed on: when no
\* PLAYER link of the anchor has a bad target the listing returns Ok with one
\* record per PLAYER link it read, whatever links of other tags the anchor
\* carries. What the store does with a tag that only begins with the tag asked
\* for is the store's matching rule, which player_profile.rs does not show.
C17_TagFilter ==
    /\ \A l \in AllLinks : l.author \in Agents => l.tag = "PLAYER"
    /\ PLAYER_LINK_TAG = "PLAYER"
    /\ \A q \in Agents :
          /\ \A i \in Indices(player_links[q]) :
                /\ player_links[q][i].tag = "PLAYER"
                /\ player_links[q][i].base = AnchorOf(game_code[q])
          /\ (ListDone(q) /\ game_code[q] \in ValidCodes) =>
                /\ result[q] \in LinkErrors =>
                      /\ player_links[q][next_link[q]].tag = "PLAYER"
                      /\ BadTarget(player_links[q][next_link[q]])
                /\ (\A l \in AllLinks :
                        (l.base = AnchorOf(game_code[q]) /\ l.tag = "PLAYER")
                            => ~ BadTarget(l))
                      => /\ result[q] = Ok
                         /\ Len(players[q]) = Len(player_links[q])
                         /\ Len(players[q]) <=
                               Cardinality(PlayerLinkPositions(game_code[q]))

\* A listing has returned a record from an anchor that carried, when it was
\* read, a link under another tag whose target holds nothing.
C17_Witness ==
    \E q \in Agents :
        /\ ListDone(q) /\ result[q] = Ok /\ game_code[q] \in ValidCodes
        /\ Len(players[q]) >= 1
        /\ \E i \in Indices(links[AnchorOf(game_code[q])]) :
              /\ links[AnchorOf(game_code[q])][i].tag # "PLAYER"
              /\ Get(links[AnchorOf(game_code[q])][i].target) = {}
              /\ i < player_links[q][Len(player_links[q])].id

\* The step is one of a get_game_players call of q: its first (from idle), its
\* get_links, an iteration of its loop, or its return.
ListStep(q) ==
    /\ game_info[q] = NoJoinGameInfo /\ game_info'[q] = NoJoinGameInfo
    /\ pc'[q] # "idle"
    /\ (pc'[q] # pc[q] \/ next_link'[q] # next_link[q])

\* C18 (get_game_players is read-only): no step of a get_game_players call,
\* whether the call goes on, returns Ok or ends with an error at any of its
\* steps, changes the stored entries, the links or the chains.
C18_Step ==
    \A q \in Agents :
        ListStep(q) => /\ dht' = dht
                       /\ links' = links
                       /\ chain' = chain

C18_ReadOnly == [][C18_Step]_vars

\* A listing has ended with RecordNotFound after it fetched a record, and the
\* link it failed on is still where it was.
C18_Witness ==
    \E q \in Agents :
        /\ ListDone(q) /\ result[q] = Err("RecordNotFound")
        /\ Len(players[q]) >= 1
        /\ LET l == player_links[q][next_link[q]] IN
           /\ l.id \in Indices(links[l.base])
           /\ links[l.base][l.id] = l

====
